---- MODULE Spec2Model ----
(***************************************************************************)
(* Model of windows/desktop_updater_plugin.cpp (flutter_desktop_updater).  *)
(*                                                                         *)
(* Two processes:                                                          *)
(*   - the application process, executing RestartApp():                    *)
(*       createBatFile(...); runBatFile(); ExitProcess(0);                 *)
(*   - the generated update_script.bat, run by "cmd.exe /c", one action    *)
(*     per labelled section of the script text.                            *)
(*                                                                         *)
(* The file system is the installation root (the working directory): a     *)
(* map from top-level entry names to a content token, plus the two         *)
(* directories the script names literally, "update" and "backup", and the  *)
(* file "update_script.bat".                                               *)
(*                                                                         *)
(* Outcomes of external commands that the script either tests or whose     *)
(* result it throws away while depending on them are inputs chosen with \E:*)
(* ofstream open, CreateProcess, tasklist (the process table), taskkill,   *)
(* copy / xcopy per entry.  rmdir, mkdir, start and del are taken to do    *)
(* what they are asked.                                                    *)
(***************************************************************************)
EXTENDS Integers, Sequences, FiniteSets, TLC

\* ---------------------------------------------------------------- constants
\* const int MAX_WAIT_ATTEMPTS = 5;
MAX_WAIT_ATTEMPTS == 5
\* const int MAX_RETRY_ATTEMPTS = 3;
MAX_RETRY_ATTEMPTS == 3
\* const int RETRY_DELAY_SECONDS = 2;
RETRY_DELAY_SECONDS == 2
\* "timeout /t 1 /nobreak" inside the wait loop
WAIT_INTERVAL_SECONDS == 1

\* ------------------------------------------------------------------- bounds
\* How many of AllNames exist as ordinary entries of the installation root.
NumNames == 3
AllNames == <<"app.exe", "assets", "extra.dll", "data.dll">>
Names == {AllNames[i] : i \in 1..NumNames}
\* Entries that are directories (enumerated by "for /D", not by "for %%F").
DirNames == {"assets"}

\* A content token stands for the bytes of a file, or for the whole subtree
\* of a directory entry: "old" (installed), "new" (staged), "stale" (left in
\* a backup directory by an earlier run).  None: the entry does not exist.
None == "none"

\* The three names the script text spells out.
ScriptName == "update_script.bat"
BackupName == "backup"
UpdateName == "update"

VARIABLES
  orchPc,      \* position of the application inside RestartApp
  appRunning,  \* the original application process is in the process table
  spawned,     \* CreateProcess in runBatFile returned success
  result,      \* what HandleMethodCall gave the RPC caller: "none" | "success" | "error"
  resultValue, \* the value passed to result->Success (UTF-8 bytes)
  resultError, \* the message passed to result->Error, "" if none
  productVersion, \* the ProductVersion string of the version resource
  artifact,    \* update_script.bat exists in the installation root
  pc,          \* position of cmd.exe in update_script.bat
  COUNT,       \* script variable COUNT
  RETRY,       \* script variable RETRY
  ERRORLEVEL,  \* script ERRORLEVEL of the last tested command
  root,        \* installation root: Names -> Content \cup {None}
  updateDir,   \* directory "update" exists
  update,      \* content of "update": Names -> Content \cup {None}
  backupDir,   \* directory "backup" exists
  backup,      \* content of "backup": Names -> Content \cup {None}
  attempted,   \* entries for which a copy into "backup" was issued in this run
  captured,    \* entries whose copy into "backup" succeeded in this run
  relaunched,  \* number of "start" commands issued for the executable
  log,         \* commands issued by the script so far, in order
  pre,         \* the installation root when restartApp was called
  pkg          \* the update package when restartApp was called

vars == <<orchPc, appRunning, spawned, result, resultValue, resultError,
          productVersion,
          artifact, pc, COUNT, RETRY, ERRORLEVEL, root, updateDir, update,
          backupDir, backup, attempted, captured, relaunched, log, pre, pkg>>

rpcVars == <<result, resultValue, resultError, productVersion>>
orchVars == <<orchPc, spawned, rpcVars>>
fsVars == <<root, updateDir, update, backupDir, backup, attempted, captured>>

\* ------------------------------------------------------------------ helpers
Empty == [n \in Names |-> None]
Present(m) == {n \in Names : m[n] # None}

\* Variant: a copy that does not replace an entry the destination already has
\* (xcopy without /Y answering "no" to the overwrite prompt).
OverlayKeepExisting(dst, src, which) ==
  [n \in Names |-> IF n \in which /\ src[n] # None /\ dst[n] = None
                     THEN src[n] ELSE dst[n]]

\* xcopy /Y src dst restricted to the entries in which: each one replaces the
\* destination entry of the same name, everything else in dst is left alone.
Overlay(dst, src, which) ==
  [n \in Names |-> IF n \in which /\ src[n] # None THEN src[n] ELSE dst[n]]

Cmd(c, a) == [cmd |-> c, arg |-> a]
Count(c) == Cardinality({i \in 1..Len(log) : log[i].cmd = c})

\* ------------------------------------------------------------------ initial
\* The executable is running, so it exists; the package is staged and is not
\* empty (precondition of restartApp).  A backup directory may be left over
\* from a run that was cut short.
StaleBackup == [n \in Names |-> IF n = AllNames[NumNames] THEN "stale" ELSE None]

Init ==
  /\ orchPc = "createBatFile"
  /\ appRunning = TRUE
  /\ spawned = FALSE
  /\ result = "none"
  /\ resultValue = <<>>
  /\ resultError = ""
  /\ productVersion = <<>>
  /\ artifact = FALSE
  /\ pc = "not_started"
  /\ COUNT = 0
  /\ RETRY = 0
  /\ ERRORLEVEL = 0
  /\ root \in {r \in [Names -> {"old", None}] : r["app.exe"] = "old"}
  /\ updateDir = TRUE
  /\ update \in {u \in [Names -> {"new", None}] : Present(u) # {}}
  /\ backupDir \in BOOLEAN
  /\ backup = IF backupDir THEN StaleBackup ELSE Empty
  /\ attempted = {}
  /\ captured = {}
  /\ relaunched = 0
  /\ log = <<>>
  /\ pre = root
  /\ pkg = update

\* ------------------------------------------------- the application process
\* createBatFile: std::ofstream batFile("update_script.bat"); on is_open()
\* the script is written, otherwise a message goes to std::cerr.  void.
CreateBatFile ==
  /\ orchPc = "createBatFile"
  /\ appRunning
  /\ \E is_open \in BOOLEAN : artifact' = (artifact \/ is_open)
  /\ orchPc' = "runBatFile"
  /\ UNCHANGED <<appRunning, spawned, rpcVars, pc, COUNT, RETRY, ERRORLEVEL,
                 fsVars, relaunched, log, pre, pkg>>

\* runBatFile: CreateProcess("cmd.exe /c update_script.bat"); on success the
\* handles are closed, on failure a message goes to std::cerr.  void.
\* cmd.exe runs the script only when the file is there.
RunBatFile ==
  /\ orchPc = "runBatFile"
  /\ appRunning
  /\ \E success \in BOOLEAN :
       /\ spawned' = success
       /\ pc' = IF success /\ artifact THEN "start" ELSE pc
  /\ orchPc' = "ExitProcess"
  /\ UNCHANGED <<appRunning, rpcVars, artifact, COUNT, RETRY, ERRORLEVEL,
                 fsVars, relaunched, log, pre, pkg>>

\* RestartApp, last statement: ExitProcess(0).  result->Success() in
\* HandleMethodCall comes after RestartApp() and is never reached.
ExitProcess ==
  /\ orchPc = "ExitProcess"
  /\ appRunning
  /\ appRunning' = FALSE
  /\ orchPc' = "exited"
  /\ UNCHANGED <<spawned, rpcVars, artifact, pc, COUNT, RETRY, ERRORLEVEL,
                 fsVars, relaunched, log, pre, pkg>>

\* --------------------------------------------------------------- the script
\* "set COUNT=0"
ScriptStart ==
  /\ pc = "start"
  /\ COUNT' = 0
  /\ pc' = "wait_loop"
  /\ UNCHANGED <<orchVars, appRunning, artifact, RETRY, ERRORLEVEL, fsVars,
                 relaunched, log, pre, pkg>>

\* Variant: %COUNT% expanded once, before the loop, where it is 0.
TimeoutReachedStale(countAtParse) == 0 >= MAX_WAIT_ATTEMPTS

\* Variant: the limit test succeeds on the first check.
TimeoutReachedFirst(countAtParse) == countAtParse >= 0

\* The test "if %COUNT% GEQ 5" sits inside the parenthesised block of
\* 'if "%ERRORLEVEL%"=="0" ( ... )'.  cmd.exe expands %COUNT% when it reads
\* the block, that is before "set /a COUNT+=1" in the same block runs, so
\* the value compared is the one COUNT had on entry to the block.
TimeoutReached(countAtParse) == countAtParse >= MAX_WAIT_ATTEMPTS

\* :wait_loop .. "echo Application closed successfully"
WaitLoop ==
  /\ pc = "wait_loop"
  /\ ERRORLEVEL' = IF appRunning THEN 0 ELSE 1
  /\ IF appRunning
       THEN /\ COUNT' = COUNT + 1
            /\ IF TimeoutReached(COUNT)
                 THEN /\ \E killed \in BOOLEAN : appRunning' = ~killed
                      /\ log' = log \o <<Cmd("tasklist", 0), Cmd("taskkill", 0)>>
                      /\ pc' = "step2"
                 ELSE /\ log' = log \o <<Cmd("tasklist", 0),
                                         Cmd("timeout", WAIT_INTERVAL_SECONDS)>>
                      /\ pc' = "wait_loop"
                      /\ UNCHANGED appRunning
       ELSE /\ log' = Append(log, Cmd("tasklist", 1))
            /\ pc' = "step2"
            /\ UNCHANGED <<COUNT, appRunning>>
  /\ UNCHANGED <<orchVars, artifact, RETRY, fsVars, relaunched, pre, pkg>>

\* Variant: a backup directory that exists is left as it is.
BackupNotCleared == backup

\* if exist backup ( rmdir /s /q backup ): what "backup" holds afterwards.
BackupAfterStep2 == Empty

\* Variant: no "mkdir backup".
BackupDirNotMade == FALSE

\* mkdir backup: the directory exists afterwards.
BackupDirAfterStep2 == TRUE

\* Variant: the script jumps over both backup loops.
AfterStep2SkipBackup == "step3"

\* After "mkdir backup" the script falls into the "for %%F" loop.
AfterStep2 == "backup_files"

\* :step2 .. "mkdir backup"
Step2 ==
  /\ pc = "step2"
  /\ backupDir' = BackupDirAfterStep2
  /\ backup' = BackupAfterStep2
  /\ log' = log \o (IF backupDir THEN <<Cmd("rmdir_backup", 0)>> ELSE <<>>)
                \o <<Cmd("mkdir_backup", 0)>>
  /\ pc' = AfterStep2
  /\ UNCHANGED <<orchVars, appRunning, artifact, COUNT, RETRY, ERRORLEVEL,
                 root, updateDir, update, attempted, captured, relaunched,
                 pre, pkg>>

\* What "for %%F in (*)" and "for /D %%D in (*)" enumerate.
TopFiles ==
  {n \in Names \ DirNames : root[n] # None}
    \cup (IF artifact THEN {ScriptName} ELSE {})
TopDirs ==
  {n \in Names \cap DirNames : root[n] # None}
    \cup (IF backupDir THEN {BackupName} ELSE {})
    \cup (IF updateDir THEN {UpdateName} ELSE {})

\* if not "%%F"=="backup" ( if not "%%F"=="update_script.bat" ( copy ...
BackupFileSet == {f \in TopFiles : f # BackupName /\ f # ScriptName}
\* Variant: the directory loop skips only "backup".
BackupDirSetWithUpdate == {d \in TopDirs : d # BackupName}

\* if not "%%D"=="backup" ( if not "%%D"=="update" ( xcopy ...
BackupDirSet == {d \in TopDirs : d # BackupName /\ d # UpdateName}

\* the "for %%F" loop: copy "%%F" "backup\%%F" >NUL 2>&1
BackupFiles ==
  /\ pc = "backup_files"
  /\ \E failed \in SUBSET BackupFileSet :
       /\ backup' = Overlay(backup, root, BackupFileSet \ failed)
       /\ captured' = captured \cup (BackupFileSet \ failed)
  /\ attempted' = attempted \cup BackupFileSet
  /\ log' = Append(log, Cmd("copy_to_backup", 0))
  /\ pc' = "backup_dirs"
  /\ UNCHANGED <<orchVars, appRunning, artifact, COUNT, RETRY, ERRORLEVEL,
                 root, updateDir, update, backupDir, relaunched, pre, pkg>>

\* the "for /D" loop: xcopy /E /H /C /I /Y "%%D" "backup\%%D\" >NUL 2>&1
BackupDirs ==
  /\ pc = "backup_dirs"
  /\ \E failed \in SUBSET BackupDirSet :
       /\ backup' = Overlay(backup, root, BackupDirSet \ failed)
       /\ captured' = captured \cup (BackupDirSet \ failed)
  /\ attempted' = attempted \cup BackupDirSet
  /\ log' = Append(log, Cmd("xcopy_to_backup", 0))
  /\ pc' = "step3"
  /\ UNCHANGED <<orchVars, appRunning, artifact, COUNT, RETRY, ERRORLEVEL,
                 root, updateDir, update, backupDir, relaunched, pre, pkg>>

\* "set RETRY=0"
Step3 ==
  /\ pc = "step3"
  /\ RETRY' = 0
  /\ pc' = "retry_copy"
  /\ UNCHANGED <<orchVars, appRunning, artifact, COUNT, ERRORLEVEL, fsVars,
                 relaunched, log, pre, pkg>>

\* Variant: LEQ in place of LSS.
RetryAgainLeq(retry) == retry <= MAX_RETRY_ATTEMPTS

\* if %RETRY% LSS 3 ( ... goto retry_copy )
RetryAgain(retry) == retry < MAX_RETRY_ATTEMPTS

\* Variant: no "rmdir /s /q backup" in the success branch.
BackupDirLeft == backupDir

\* rmdir /s /q backup in the success branch: the directory is gone.
BackupDirAfterApply == FALSE

\* Variant: no "goto cleanup" in the success branch.
AfterApplySuccessFallThrough == "rollback"

\* goto cleanup
AfterApplySuccess == "cleanup"

\* :retry_copy .. "echo All update attempts failed"
\* xcopy /E /I /Y "update\*" ".\" stops at the first entry it cannot write:
\* a failed attempt has written some of the package but not all of it, and
\* leaves a nonzero ERRORLEVEL (4 stands for any of xcopy's error codes).
RetryCopy ==
  /\ pc = "retry_copy"
  /\ RETRY' = RETRY + 1
  /\ \/ /\ root' = Overlay(root, update, Names)
        /\ ERRORLEVEL' = 0
        /\ backupDir' = BackupDirAfterApply
        /\ backup' = Empty
        /\ log' = log \o <<Cmd("xcopy_update", 0), Cmd("rmdir_backup", 0)>>
        /\ pc' = AfterApplySuccess
     \/ /\ \E written \in SUBSET Present(update) :
             /\ written # Present(update)
             /\ root' = Overlay(root, update, written)
        /\ ERRORLEVEL' = 4
        /\ IF RetryAgain(RETRY')
             THEN /\ log' = log \o <<Cmd("xcopy_update", 4),
                                     Cmd("timeout", RETRY_DELAY_SECONDS)>>
                  /\ pc' = "retry_copy"
             ELSE /\ log' = Append(log, Cmd("xcopy_update", 4))
                  /\ pc' = "rollback"
        /\ UNCHANGED <<backupDir, backup>>
  /\ UNCHANGED <<orchVars, appRunning, artifact, COUNT, updateDir, update,
                 attempted, captured, relaunched, pre, pkg>>

\* Variant: the restoring xcopy reads the staging directory.
RestoreFromUpdate == update

\* The source directory of the restoring xcopy: backup\*.*
RestoreFrom == backup

\* Variant: the restore path jumps past the removal of the staging directory.
AfterRollbackSkipCleanup == "start_app"

\* Variant: the script exits after the restore.
AfterRollbackExit == "exit"

\* After "rmdir /s /q backup" the script falls through to :cleanup.
AfterRollback == "cleanup"

\* "echo [STEP 4/5]" .. "rmdir /s /q backup"
\* xcopy /E /H /C /I /Y backup\*.* .  (/C: goes on past an entry that fails)
Rollback ==
  /\ pc = "rollback"
  /\ \E failed \in SUBSET Present(RestoreFrom) :
       /\ root' = Overlay(root, RestoreFrom, Present(RestoreFrom) \ failed)
       /\ ERRORLEVEL' = IF failed = {} THEN 0 ELSE 4
       /\ log' = log \o <<Cmd("xcopy_backup", IF failed = {} THEN 0 ELSE 4),
                          Cmd("rmdir_backup", 0)>>
  /\ backupDir' = FALSE
  /\ backup' = Empty
  /\ pc' = AfterRollback
  /\ UNCHANGED <<orchVars, appRunning, artifact, COUNT, RETRY, updateDir,
                 update, attempted, captured, relaunched, pre, pkg>>

\* :cleanup .. rmdir /S /Q "update"
Cleanup ==
  /\ pc = "cleanup"
  /\ updateDir' = FALSE
  /\ update' = Empty
  /\ log' = Append(log, Cmd("rmdir_update", 0))
  /\ pc' = "start_app"
  /\ UNCHANGED <<orchVars, appRunning, artifact, COUNT, RETRY, ERRORLEVEL,
                 root, backupDir, backup, attempted, captured, relaunched,
                 pre, pkg>>

\* start /MAX "" "<exePath>"  and  timeout /t 1
StartApp ==
  /\ pc = "start_app"
  /\ relaunched' = relaunched + 1
  /\ log' = log \o <<Cmd("start", 0), Cmd("timeout", 1)>>
  /\ pc' = "del_script"
  /\ UNCHANGED <<orchVars, appRunning, artifact, COUNT, RETRY, ERRORLEVEL,
                 fsVars, pre, pkg>>

\* del update_script.bat .. exit
DelScript ==
  /\ pc = "del_script"
  /\ artifact' = FALSE
  /\ log' = Append(log, Cmd("del_script", 0))
  /\ pc' = "exit"
  /\ UNCHANGED <<orchVars, appRunning, COUNT, RETRY, ERRORLEVEL, fsVars,
                 relaunched, pre, pkg>>

ScriptNext ==
  \/ ScriptStart
  \/ WaitLoop
  \/ Step2
  \/ BackupFiles
  \/ BackupDirs
  \/ Step3
  \/ RetryCopy
  \/ Rollback
  \/ Cleanup
  \/ StartApp
  \/ DelScript

Next ==
  \/ CreateBatFile
  \/ RunBatFile
  \/ ExitProcess
  \/ ScriptNext

Spec == Init /\ [][Next]_vars

\* cmd.exe keeps executing the script it was given: every command of the
\* script returns and the interpreter goes on to the next one.
FairSpec == Spec /\ WF_vars(ScriptNext)

\* -------------------------------------------------------- getCurrentVersion
\* Characters are code points.  L'+' and L' ' are the two the handler names.
PlusChar == 43
SpaceChar == 32

\* Longest ProductVersion string tried.
MaxVerLen == 4
\* '+', ' ', '1' (49) and a character outside ASCII (233).
VerChars == {PlusChar, SpaceChar, 49, 233}
VersionStrings == UNION {[1..k -> VerChars] : k \in 0..MaxVerLen}

\* std::wstring::find(ch): position of the first ch, counted from 1; 0 for npos.
Find(str, ch) ==
  IF \E i \in 1..Len(str) : str[i] = ch
    THEN CHOOSE i \in 1..Len(str) : str[i] = ch /\ \A j \in 1..(i - 1) : str[j] # ch
    ELSE 0

\* std::wstring::find_last_not_of(ch), counted from 1; 0 for npos.
FindLastNotOf(str, ch) ==
  IF \E i \in 1..Len(str) : str[i] # ch
    THEN CHOOSE i \in 1..Len(str) :
           str[i] # ch /\ \A j \in (i + 1)..Len(str) : str[j] = ch
    ELSE 0

\* buildNumber.erase(buildNumber.find_last_not_of(L' ') + 1): with npos the
\* sum wraps to 0 and erase(0) empties the string.
TrimTrailingSpaces(str) == SubSeq(str, 1, FindLastNotOf(str, SpaceChar))

\* WideCharToMultiByte(CP_UTF8, ...) without the terminator, for code points
\* below 0x800.
Utf8Char(cp) == IF cp < 128 THEN <<cp>> ELSE <<192 + (cp \div 64), 128 + (cp % 64)>>
RECURSIVE Utf8(_)
Utf8(str) == IF str = <<>> THEN <<>> ELSE Utf8Char(Head(str)) \o Utf8(Tail(str))

\* plusPos != npos && plusPos + 1 < productVersion.length(), plusPos from 1.
HasBuild(str) == Find(str, PlusChar) # 0 /\ Find(str, PlusChar) < Len(str)

\* The four early returns before the string is looked at.
ResourceErrors ==
  {"Unable to get version size.", "Unable to get version info.",
   "Unable to get translation info.", "Unable to query version value."}

\* HandleMethodCall, branch "getCurrentVersion"
GetCurrentVersion ==
  /\ orchPc = "getCurrentVersion"
  /\ appRunning
  /\ \/ \E msg \in ResourceErrors :
          /\ result' = "error"
          /\ resultError' = msg
          /\ UNCHANGED resultValue
     \/ IF HasBuild(productVersion)
          THEN /\ result' = "success"
               /\ resultValue' =
                    Utf8(TrimTrailingSpaces(
                      SubSeq(productVersion, Find(productVersion, PlusChar) + 1,
                             Len(productVersion))))
               /\ UNCHANGED resultError
          ELSE /\ result' = "error"
               /\ resultError' = "Invalid version format."
               /\ UNCHANGED resultValue
  /\ orchPc' = "returned"
  /\ UNCHANGED <<appRunning, spawned, productVersion, artifact, pc, COUNT,
                 RETRY, ERRORLEVEL, fsVars, relaunched, log, pre, pkg>>

\* The application is running and the host calls getCurrentVersion; no
\* update is staged.
VersionInit ==
  /\ orchPc = "getCurrentVersion"
  /\ appRunning = TRUE
  /\ spawned = FALSE
  /\ result = "none"
  /\ resultValue = <<>>
  /\ resultError = ""
  /\ productVersion \in VersionStrings
  /\ artifact = FALSE
  /\ pc = "not_started"
  /\ COUNT = 0
  /\ RETRY = 0
  /\ ERRORLEVEL = 0
  /\ root = [n \in Names |-> IF n = "app.exe" THEN "old" ELSE None]
  /\ updateDir = FALSE
  /\ update = Empty
  /\ backupDir = FALSE
  /\ backup = Empty
  /\ attempted = {}
  /\ captured = {}
  /\ relaunched = 0
  /\ log = <<>>
  /\ pre = root
  /\ pkg = update

VersionNext == GetCurrentVersion

VersionSpec == VersionInit /\ [][VersionNext]_vars

\* =================================================================== claims
Has(c, a) == \E i \in 1..Len(log) : log[i] = Cmd(c, a)
ApplyIdx == {i \in 1..Len(log) : log[i].cmd = "xcopy_update"}
Attempt(i) == Cardinality({j \in ApplyIdx : j <= i})
AllApplyFailed == Cardinality({i \in ApplyIdx : log[i].arg # 0}) = MAX_RETRY_ATTEMPTS
ApplySucceeded == Has("xcopy_update", 0)
RolledBack == Count("xcopy_backup") = 1
\* The package laid over the pre-update root, entry by entry.
Updated == [n \in Names |-> IF pkg[n] # None THEN pkg[n] ELSE pre[n]]

\* The script can take a step: cmd.exe is not stuck at its current command.
CanStep == ENABLED ScriptNext

\* C1: every run of the script issues the relaunch ("start") exactly once,
\* after removing the staging directory and before it exits; it never issues
\* it twice; and no run halts anywhere but at its exit, where the relaunch
\* has been issued.
C1_RelaunchExactlyOnce ==
  [](/\ relaunched <= 1 /\ Count("start") = relaunched
     /\ pc = "exit" => relaunched = 1 /\ Count("rmdir_update") = 1
     /\ relaunched = 1 <=> pc \in {"del_script", "exit"}
     /\ relaunched = 1 => Count("rmdir_update") = 1
     /\ pc \notin {"not_started", "exit"} => CanStep)

\* C1 witness: a run that timed out waiting, failed every apply attempt,
\* failed part of the rollback, and still relaunched once and exited.
C1_Witness ==
  /\ pc = "exit"
  /\ relaunched = 1
  /\ Count("taskkill") = 1
  /\ captured # Present(pre)
  /\ AllApplyFailed
  /\ Has("xcopy_backup", 4)

\* C2: when the script has exited, the installation root is either the
\* pre-update content or the pre-update content with the whole package laid
\* over it, never something in between.
C2_NeverHalfWritten == pc = "exit" => (root = pre \/ root = Updated)

\* C3: the application process is gone only if the executor process was
\* spawned; a failed spawn is reported to the caller as an error.
C3_SpawnFailureKeepsApp ==
  /\ ~appRunning => spawned
  /\ (orchPc = "exited" /\ ~spawned) => result = "error"

\* The script file could not be written: it does not exist although
\* createBatFile has returned and no script run has ever deleted it.
WriteFailed == orchPc # "createBatFile" /\ ~artifact /\ pc = "not_started"

\* C4: if update_script.bat could not be written, no executor is spawned,
\* the application process is not terminated and the caller gets an error.
C4_WriteFailureStops ==
  WriteFailed =>
    /\ ~spawned
    /\ appRunning
    /\ (orchPc = "exited" => result = "error")

\* C5: at most MAX_RETRY_ATTEMPTS copy attempts; a failed attempt before the
\* last is followed by a delay of RETRY_DELAY_SECONDS and then the next
\* attempt; the last failed attempt is followed by the restore from backup
\* with no delay; a retry delay occurs nowhere else.
C5_ApplyRetryBound ==
  [](/\ Cardinality(ApplyIdx) <= MAX_RETRY_ATTEMPTS
     /\ RETRY <= MAX_RETRY_ATTEMPTS
     /\ \A i \in ApplyIdx :
          log[i].arg # 0 =>
            IF Attempt(i) < MAX_RETRY_ATTEMPTS
              THEN /\ i < Len(log)
                   /\ log[i + 1] = Cmd("timeout", RETRY_DELAY_SECONDS)
                   /\ (i + 1 < Len(log) => log[i + 2].cmd = "xcopy_update")
                   /\ (i + 1 = Len(log) => pc = "retry_copy")
              ELSE /\ (i < Len(log) => log[i + 1].cmd = "xcopy_backup")
                   /\ (i = Len(log) => pc = "rollback")
     /\ \A i \in 1..Len(log) :
          log[i] = Cmd("timeout", RETRY_DELAY_SECONDS) =>
            /\ i > 1
            /\ log[i - 1] = Cmd("xcopy_update", 4)
            /\ Attempt(i) < MAX_RETRY_ATTEMPTS)

\* C5 witness: the third attempt has failed and the restore has run.
C5_Witness ==
  /\ Cardinality(ApplyIdx) = MAX_RETRY_ATTEMPTS
  /\ AllApplyFailed
  /\ Cardinality({i \in 1..Len(log) : log[i] = Cmd("timeout", RETRY_DELAY_SECONDS)})
       = MAX_RETRY_ATTEMPTS - 1
  /\ RolledBack

\* C6: the wait loop issues at most MAX_WAIT_ATTEMPTS process-table checks,
\* and the force termination comes no later than check MAX_WAIT_ATTEMPTS.
C6_WaitPollBound ==
  /\ Count("tasklist") <= MAX_WAIT_ATTEMPTS
  /\ (pc = "wait_loop" => Count("tasklist") < MAX_WAIT_ATTEMPTS)

\* C7: every step of the script that writes below the installation root
\* (the root entries, or the backup directory inside it) is taken in a state
\* where the original application process has exited.
C7_NoWriteWhileAppRuns ==
  [][(root' # root \/ backup' # backup \/ backupDir' # backupDir) => ~appRunning]_vars

\* Every entry of the pre-update root was copied into the backup.
BackupSucceeded == captured = Present(pre)

\* C8: if every apply attempt failed and the backup was complete, the
\* installation root at exit equals the pre-update snapshot.
C8_FailureRestoresSnapshot ==
  (pc = "exit" /\ AllApplyFailed /\ BackupSucceeded) => root = pre

C10_SuccessOverlaysPackage ==
  (pc = "exit" /\ ApplySucceeded) =>
    /\ \A n \in Names : pkg[n] # None => root[n] = pkg[n]
    /\ \A n \in Names : pkg[n] = None => root[n] = pre[n]
    /\ ~backupDir
    /\ ~updateDir
    /\ relaunched = 1

\* C10 witness: root {app.exe, assets}, package {app.exe(new), extra.dll},
\* success on the second attempt, final root {app.exe(new), assets, extra.dll}.
C10_Witness ==
  /\ pc = "exit"
  /\ ApplySucceeded
  /\ Cardinality(ApplyIdx) = 2
  /\ Present(pre) = {"app.exe", "assets"}
  /\ Present(pkg) = {"app.exe", "extra.dll"}
  /\ root["app.exe"] = "new" /\ root["assets"] = "old" /\ root["extra.dll"] = "new"
  /\ ~backupDir /\ ~updateDir /\ relaunched = 1

\* ------------------------------------------------------------ claims 11..20
FromCleanup == pc \in {"cleanup", "start_app", "del_script", "exit"}
ApplyBegun == pc \in {"step3", "retry_copy", "rollback"} \/ FromCleanup
ApplyInProgress == pc \in {"step3", "retry_copy", "rollback"}
BackupDone == ApplyBegun
Before(c, i) == \E j \in 1..(i - 1) : log[j].cmd = c

\* C11: from the entry of :cleanup to the exit of the script the backup
\* directory does not exist, after a successful apply and after a restore
\* (whether or not the restoring copy reported errors).
C11_NoBackupFromCleanup == FromCleanup => (~backupDir /\ backup = Empty)

\* C11 witness: :cleanup entered after a restore whose copy reported errors.
C11_Witness ==
  /\ pc = "cleanup"
  /\ Has("xcopy_backup", 4)
  /\ ~backupDir
  /\ \E i \in 1..Len(log) : log[i].cmd = "mkdir_backup" /\ Before("rmdir_backup", i)

\* C12 as stated, on the states after the script's own step 2 (earlier a
\* backup directory can only be a leftover): the backup directory exists if
\* and only if the apply step has begun.
C12_BackupIffApplyBegun ==
  pc \in {"backup_files", "backup_dirs"} \/ ApplyBegun => (backupDir <=> ApplyBegun)

\* C12 amended: once step 2 has run, the backup directory exists if and only
\* if the script is in the backup loops, in the apply step or in the restore:
\* it is there before the apply step begins and gone when :cleanup is entered.
C12_BackupWhileApplying ==
  pc \in {"backup_files", "backup_dirs"} \/ ApplyBegun =>
    (backupDir <=> (pc \in {"backup_files", "backup_dirs"} \/ ApplyInProgress))

\* C12 witness: two attempts have failed, the third is about to start, and
\* the backup directory is there.
C12_Witness == pc = "retry_copy" /\ RETRY = 2 /\ backupDir /\ captured # {}

\* C13: once :cleanup has removed it, and so when the script exits, the
\* staging directory does not exist, on the success and the restore path.
C13_StagingRemoved ==
  pc \in {"start_app", "del_script", "exit"} => (~updateDir /\ update = Empty)

\* C13 witness: the script has exited on the restore path, staging absent.
C13_Witness == pc = "exit" /\ RolledBack /\ ~updateDir /\ ~ApplySucceeded

\* The part of the string after its first '+', <<>> when there is no '+'.
AfterPlus(str) ==
  IF Find(str, PlusChar) = 0 THEN <<>>
  ELSE SubSeq(str, Find(str, PlusChar) + 1, Len(str))
Malformed(str) ==
  \/ Find(str, PlusChar) = 0
  \/ \A i \in 1..Len(AfterPlus(str)) : AfterPlus(str)[i] = SpaceChar

\* C14: when the version resource can be read, getCurrentVersion answers
\* with the part after the '+' for a well-formed string, answers
\* VersionError when the '+' is missing or the build part is empty or only
\* spaces, and never answers success with an empty string.
C14_BuildOrVersionError ==
  orchPc = "returned" =>
    /\ result \in {"success", "error"}
    /\ Malformed(productVersion) => result = "error"
    /\ result = "success" => resultValue # <<>>
    /\ (result = "success" /\ FindLastNotOf(AfterPlus(productVersion), SpaceChar)
                                = Len(AfterPlus(productVersion)))
         => resultValue = Utf8(AfterPlus(productVersion))
    /\ (result = "error" /\ ~Malformed(productVersion)) => resultError \in ResourceErrors

\* C15 as stated: the entries for which the backup loops issue a copy are all
\* top-level entries present when BACKUP runs, the staging directory
\* included, except the backup directory and update_script.bat.
C15_BackupAllButTwo == BackupDone => attempted = Present(pre) \cup {UpdateName}

\* C15 amended: the staging directory is excluded as well: the copies issued
\* are exactly those of the ordinary entries of the pre-update root, and an
\* entry whose copy succeeded is in the backup with its pre-update content.
C15_BackupAllButThree ==
  /\ BackupDone =>
       /\ attempted = Present(pre)
       /\ {UpdateName, BackupName, ScriptName} \cap attempted = {}
       /\ captured \subseteq attempted
  /\ ApplyInProgress => \A n \in captured : backup[n] = pre[n]

\* C15 witness: BACKUP has finished with a file and a directory copied, while
\* staging directory, backup directory and script file all existed.
C15_Witness ==
  /\ pc = "step3"
  /\ updateDir /\ backupDir /\ artifact
  /\ {"app.exe", "assets"} \subseteq captured
  /\ backup["assets"] = "old"

\* An upper bound on the commands the script has left to execute, from its
\* position and the two loop counters.
StepsLeft ==
  CASE pc = "not_started"  -> MAX_WAIT_ATTEMPTS + MAX_RETRY_ATTEMPTS + 12
    [] pc = "start"        -> MAX_WAIT_ATTEMPTS + MAX_RETRY_ATTEMPTS + 11
    [] pc = "wait_loop"    -> (MAX_WAIT_ATTEMPTS + 1 - COUNT)
                                + MAX_RETRY_ATTEMPTS + 9
    [] pc = "step2"        -> MAX_RETRY_ATTEMPTS + 8
    [] pc = "backup_files" -> MAX_RETRY_ATTEMPTS + 7
    [] pc = "backup_dirs"  -> MAX_RETRY_ATTEMPTS + 6
    [] pc = "step3"        -> MAX_RETRY_ATTEMPTS + 5
    [] pc = "retry_copy"   -> (MAX_RETRY_ATTEMPTS - RETRY) + 4
    [] pc = "rollback"     -> 4
    [] pc = "cleanup"      -> 3
    [] pc = "start_app"    -> 2
    [] pc = "del_script"   -> 1
    [] pc = "exit"         -> 0

\* C16: the script terminates after a bounded number of steps: the wait loop
\* and the retry loop are bounded by their limits, every command the script
\* executes lowers a natural-number bound on the commands left, and the
\* script is never stuck before its exit.
C16_Terminates ==
  /\ [](COUNT <= MAX_WAIT_ATTEMPTS + 1 /\ RETRY <= MAX_RETRY_ATTEMPTS)
  /\ [](Len(log) <= 2 * (MAX_WAIT_ATTEMPTS + 1) + 2 * MAX_RETRY_ATTEMPTS + 10)
  /\ [](StepsLeft \in Nat)
  /\ [](StepsLeft = 0 <=> pc = "exit")
  /\ [](pc \notin {"not_started", "exit"} => CanStep)
  /\ [][(pc' # pc \/ log' # log) => StepsLeft' < StepsLeft]_vars

\* C16 witness: both loops ran to their limits and the script has exited.
C16_Witness ==
  /\ pc = "exit"
  /\ COUNT = MAX_WAIT_ATTEMPTS + 1
  /\ RETRY = MAX_RETRY_ATTEMPTS
  /\ RolledBack

\* C17: the backup directory is made and both backup loops have run before
\* the first apply attempt; the staging directory is removed before the
\* relaunch; the script file is deleted after the relaunch and is the last
\* command; a script that exits has gone through all of these.
C17_FixedOrder ==
  [](/\ \A i \in 1..Len(log) :
          /\ log[i].cmd = "xcopy_update" =>
               Before("mkdir_backup", i) /\ Before("copy_to_backup", i)
                 /\ Before("xcopy_to_backup", i) /\ Before("tasklist", i)
          /\ log[i].cmd = "copy_to_backup" => Before("mkdir_backup", i)
          /\ log[i].cmd = "xcopy_backup" => Before("xcopy_update", i)
          /\ log[i].cmd = "rmdir_update" => Before("xcopy_update", i)
          /\ log[i].cmd = "start" => Before("rmdir_update", i)
          /\ log[i].cmd = "del_script" => Before("start", i) /\ i = Len(log)
     /\ pc = "exit" => Has("del_script", 0))

\* C17 witness: exit on the restore path.
C17_Witness == pc = "exit" /\ RolledBack /\ Has("del_script", 0) /\ ~artifact

\* C18: the restore from backup runs if and only if all MAX_RETRY_ATTEMPTS
\* attempts failed; after a successful attempt no copy from the backup is
\* ever issued and the root keeps the package content.
C18_RollbackIffAllFailed ==
  [](/\ Count("xcopy_backup") <= 1
     /\ Count("xcopy_backup") = 1 => (AllApplyFailed /\ ~ApplySucceeded)
     /\ (AllApplyFailed /\ FromCleanup) => RolledBack
     /\ ApplySucceeded =>
          /\ Count("xcopy_backup") = 0
          /\ FromCleanup
          /\ \A n \in Names : pkg[n] # None => root[n] = pkg[n])

\* C18 witness: success on the third attempt, script exited, no restore.
C18_Witness ==
  /\ pc = "exit"
  /\ ApplySucceeded
  /\ Cardinality(ApplyIdx) = MAX_RETRY_ATTEMPTS
  /\ Count("xcopy_backup") = 0

\* C19: taskkill is issued at most once and only after at least
\* MAX_WAIT_ATTEMPTS checks that all found the application running; a check
\* that finds it not running is the last one, is followed by step 2 and no
\* taskkill is ever issued; after taskkill the script is in step 2 whether or
\* not the application is gone.
C19_ForceKillOnlyOnTimeout ==
  [](/\ Count("taskkill") <= 1
     /\ \A i \in 1..Len(log) :
          /\ log[i].cmd = "taskkill" =>
               /\ \A j \in 1..(i - 1) :
                    log[j] \in {Cmd("tasklist", 0), Cmd("timeout", WAIT_INTERVAL_SECONDS)}
               /\ Cardinality({j \in 1..(i - 1) : log[j] = Cmd("tasklist", 0)})
                    >= MAX_WAIT_ATTEMPTS
               /\ (i = Len(log) => pc = "step2")
               /\ (i < Len(log) => log[i + 1].cmd \in {"rmdir_backup", "mkdir_backup"})
          /\ log[i] = Cmd("tasklist", 1) =>
               /\ Count("taskkill") = 0
               /\ \A j \in (i + 1)..Len(log) : log[j].cmd # "tasklist"
               /\ (i = Len(log) => pc = "step2")
               /\ (i < Len(log) => log[i + 1].cmd \in {"rmdir_backup", "mkdir_backup"})
     /\ pc = "wait_loop" => Count("taskkill") = 0)

\* C19 witness: taskkill was issued, did not end the application, and the
\* script has gone on into the backup.
C19_Witness == Count("taskkill") = 1 /\ appRunning /\ pc = "backup_dirs"

\* C20: whatever an earlier run left in the backup directory is gone before
\* the copies: the backup holds only entries captured in this run, with
\* their pre-update content, and the root never receives leftover content
\* nor, from the restore, an entry that neither the pre-update root nor the
\* package had.
C20_NoStaleRestore ==
  /\ pc \in {"backup_files", "backup_dirs"} \/ ApplyInProgress =>
       \A n \in Names : backup[n] # None => (n \in captured /\ backup[n] = pre[n])
  /\ \A n \in Names : root[n] # "stale"
  /\ \A n \in Names : root[n] # None => (pre[n] # None \/ pkg[n] # None)

\* C20 witness: the run started with a leftover backup, removed it, and has
\* restored from the backup made in this run.
C20_Witness ==
  /\ RolledBack
  /\ pc = "exit"
  /\ log[1].cmd = "tasklist"
  /\ \E i \in 1..Len(log) :
       /\ log[i].cmd = "rmdir_backup"
       /\ i < Len(log) /\ log[i + 1].cmd = "mkdir_backup"
  /\ root[AllNames[NumNames]] = None

====
